---------------------------- MODULE Spec2Model ----------------------------
(***************************************************************************)
(* Model of bepass: the server glue of package core (RunServer, ShutDown)  *)
(* and the UDP-over-WebSocket tunnel of package transport                  *)
(* (WSTunnel.PersistentDial with its supervisor, writer and reader         *)
(* goroutines), both in src/cmd/core/core.go.                              *)
(*                                                                         *)
(* One tunnel endpoint is modelled.  A goroutine takes one step per        *)
(* blocking point of its code (a channel operation, a connection call);    *)
(* the code between two blocking points is one atomic step.                *)
(*                                                                         *)
(* Spec has calls of PersistentDial made one after the other; SpecRace has *)
(* two calls that overlap, each access of the registry a step of its own.  *)
(* SpecServer is package core alone, with the interrupt handler.           *)
(***************************************************************************)
EXTENDS Integers, Sequences, FiniteSets, TLC

\* ------------------------------------------------------------- bounds
MaxAttach == 2      \* PersistentDial calls made from the initial state on
MaxDials == 2       \* successful dials (connections) of the supervisor
MaxSends == 2       \* packets taken from tunnelWriteChannel
MaxInbound == 1     \* inbound messages read from the connections
MaxTime == 2        \* the clock stops here
WrapWindow == 50    \* SpecWrap starts within this many ids of the u16 limit

\* ------------------------------------------------- configuration, data
\* WSTunnel fields set by the caller that builds the tunnel (seconds).
LinkIdleTimeout == 1
ReadTimeout == 1

\* uint16 arithmetic of EstablishedTunnel.channelIndex
U16 == 65536

\* WSTunnel.ShortClientID: an 8-character ASCII token
ShortClientID == <<65, 66, 67, 68, 69, 70, 71, 72>>

\* The endpoint PersistentDial is called with.
Endpoint == "ws"

\* Payloads of the packets sent on tunnelWriteChannel.
Payloads == {<< >>, <<7>>}

\* Messages a connection may deliver to conn.Read: shorter than the 2-byte
\* header, header only, and header plus payload for ids 1, 2, 3 and 256.
InboundMessages ==
    {<< >>, <<0>>, <<0, 1>>, <<0, 1, 9>>, <<0, 2, 9, 8>>, <<0, 3, 9>>, <<1, 0, 9>>}

\* Kinds of error conn.Read returns, by what strings.Contains finds in them.
ErrorKinds == {"close", "i/o", "other"}

NoPacket == [Channel |-> 0, Data |-> << >>]

\* -------------------------------------------------------------- state
VARIABLES
    s5,                 \* package core: "nil" or "set"
    listener,           \* "none", "serving" or "closed"
    shutdownReturned,   \* ShutDown() has returned
    config,             \* RunServer's argument: the fields of Config it copies
    captureCTRLC,       \* RunServer's argument
    chunkConfig,        \* the ChunkConfig of the server handler RunServer builds
    runPc,              \* RunServer: "none", "built", "assigned", "serving"
    sigPc,              \* the goroutine of line 109: "none", "spawned", "waiting",
                        \* "shutdown", "exit", "exited"
    exit,               \* the process: has it ended, with what code, ended by what
    EstablishedTunnels, \* endpoint -> [tunnelWriteChannel, bindWriteChannels, channelIndex]
    chansMade,          \* make(chan UDPPacket) calls so far: a channel's identity
    calls,              \* PersistentDial calls made so far
    callsLeft,          \* PersistentDial calls the callers have yet to make
    ret,                \* what the last PersistentDial call returned
    supervisors,        \* the tunnelWriteChannel of each supervisor started, in order
    callers,            \* goroutines inside PersistentDial at once: position, locals
    now,                \* time.Now().Unix()
    lastActivityStamp,  \* the closure variable of PersistentDial
    supPc,              \* supervisor goroutine: "none", "start", "dial", "serve", "stopped"
    conns,              \* the connections dialed, in order; a record each
    rdPc,               \* inline reader of the last connection
    rdPkt,              \* the reader's locals: the message read, its packet, its queue
    sent,               \* packets received from tunnelWriteChannel, in order
    wire,               \* messages written to the connections, in order
    inboundCount,       \* messages read so far
    delivered           \* packets enqueued on bind queues, in order

vars == <<s5, listener, shutdownReturned, config, captureCTRLC, chunkConfig, runPc,
          sigPc, exit, EstablishedTunnels, chansMade, calls,
          callsLeft, ret, supervisors, callers, now, lastActivityStamp, supPc, conns, rdPc, rdPkt, sent, wire,
          inboundCount, delivered>>

serverVars == <<s5, listener, shutdownReturned, config, captureCTRLC, chunkConfig,
                runPc, sigPc, exit>>
tunnelVars == <<EstablishedTunnels, chansMade, calls, callsLeft, ret, supervisors,
                callers, now,
                lastActivityStamp, supPc, conns, rdPc, rdPkt, sent, wire,
                inboundCount, delivered>>
registryVars == <<EstablishedTunnels, chansMade, calls, callsLeft, ret,
                  supervisors, callers>>
ioVars == <<sent, wire, inboundCount, delivered>>

\* ------------------------------------------------------------ helpers
\* Faulty PutUint16: the low byte first.
PutUint16_LittleEndian(c) == <<c % 256, c \div 256>>

\* binary.BigEndian.PutUint16(bs, rt.Channel)
PutUint16(c) == <<c \div 256, c % 256>>

\* Faulty Uint16: the low byte first.
Uint16_LittleEndian(b) == b[2] * 256 + b[1]

\* binary.BigEndian.Uint16(rawPacket[:2])
Uint16(b) == b[1] * 256 + b[2]

\* append([]byte(w.ShortClientID), append(bs, rt.Data...)...)
Frame(rt) == ShortClientID \o PutUint16(rt.Channel) \o rt.Data

\* UDPPacket{channelID, rawPacket[2:n]}
Unpack(raw) == [Channel |-> Uint16(raw), Data |-> SubSeq(raw, 3, Len(raw))]

\* tunnel.channelIndex + 1 on a uint16
NextIndex(i) == (i + 1) % U16

\* Faulty ReadErrTerminates: a close error does not end the reader.
ReadErrTerminates_IOOnly(kind) == kind = "i/o"

\* strings.Contains(err.Error(), "websocket: close") || strings.Contains(err.Error(), "i/o")
ReadErrTerminates(kind) == kind \in {"close", "i/o"}

\* The bindWriteChannel argument of the next PersistentDial call: every caller
\* makes a queue of its own, named here by the number of the call.
BindQueues == {calls + 1}

Established == Endpoint \in DOMAIN EstablishedTunnels
Tunnel == EstablishedTunnels[Endpoint]
Cur == Len(conns)
Closed(c) == conns[c].closeCalls > 0
Usable(c) == conns[c].peer = "up" /\ ~Closed(c)

NewConn ==
    [peer |-> "up", closeCalls |-> 0, done |-> FALSE, doneR |-> FALSE,
     wPc |-> "select", rt |-> NoPacket, rtSeq |-> 0, readerDone |-> FALSE,
     deadline |-> 0]

\* ------------------------------------------------------------- server
\* Values of the [2]int fields of Config, and the configurations RunServer is
\* called with.
Ranges == {<<1, 2>>, <<3, 5>>}
Configs ==
    [ChunksLengthBeforeSni : Ranges, SniChunksLength : Ranges,
     ChunksLengthAfterSni : Ranges, DelayBetweenChunks : Ranges,
     TLSHeaderLength : {5}]
DefaultConfig ==
    [ChunksLengthBeforeSni |-> <<1, 2>>, SniChunksLength |-> <<3, 5>>,
     ChunksLengthAfterSni |-> <<1, 2>>, DelayBetweenChunks |-> <<3, 5>>,
     TLSHeaderLength |-> 5]

\* No ChunkConfig built yet.
NoChunkConfig ==
    [BeforeSniLength |-> <<0, 0>>, AfterSniLength |-> <<0, 0>>, Delay |-> <<0, 0>>,
     TLSHeaderLength |-> 0]

\* Lines 78-83: the composite literal server.ChunkConfig{...}.
ChunkConfigOf(cfg) ==
    [BeforeSniLength |-> cfg.SniChunksLength,
     AfterSniLength |-> cfg.ChunksLengthAfterSni,
     Delay |-> cfg.DelayBetweenChunks,
     TLSHeaderLength |-> cfg.TLSHeaderLength]

Running == [exited |-> FALSE, code |-> 0, by |-> "none"]

\* Lines 45-114: the handler and its ChunkConfig are built; with captureCTRLC
\* the signals are routed to c and the goroutine of line 109 is started.
RunServerBuild ==
    /\ ~exit.exited
    /\ runPc = "none"
    /\ chunkConfig' = ChunkConfigOf(config)
    /\ sigPc' = IF captureCTRLC THEN "spawned" ELSE sigPc
    /\ runPc' = "built"
    /\ UNCHANGED <<s5, listener, shutdownReturned, config, captureCTRLC, exit,
                   tunnelVars>>

\* Lines 116-118: s5 = socks5.NewServer(...).
RunServerAssign ==
    /\ ~exit.exited
    /\ runPc = "built"
    /\ s5' = "set"
    /\ runPc' = "assigned"
    /\ UNCHANGED <<listener, shutdownReturned, config, captureCTRLC, chunkConfig,
                   sigPc, exit, tunnelVars>>

\* Lines 120-121: s5.ListenAndServe listens and serves; it returns, and
\* RunServer with it, when the listener is closed.  A server shut down before
\* it listens is taken not to serve.
RunServerListen ==
    /\ ~exit.exited
    /\ runPc = "assigned"
    /\ listener' = IF listener = "closed" THEN listener ELSE "serving"
    /\ runPc' = "serving"
    /\ UNCHANGED <<s5, shutdownReturned, config, captureCTRLC, chunkConfig, sigPc,
                   exit, tunnelVars>>

RunServer == RunServerBuild \/ RunServerAssign \/ RunServerListen

\* s5.Shutdown(): closes the listener.  Nothing of package transport is reached.
ServerShutdown ==
    /\ listener' = "closed"

\* Line 129, s5.Shutdown() on the handle as it is read: on a server, or on the
\* nil pointer s5 holds before line 116, which ends the process with a nil
\* pointer dereference (exit status 2 of a Go panic).
CallShutdown ==
    IF s5 = "set"
      THEN /\ ServerShutdown
           /\ shutdownReturned' = TRUE
           /\ exit' = exit
      ELSE /\ exit' = [exited |-> TRUE, code |-> 2, by |-> "nil s5"]
           /\ UNCHANGED <<listener, shutdownReturned>>

\* Lines 128-130, called by the embedding application.
ShutDown ==
    /\ ~exit.exited
    /\ ~shutdownReturned
    /\ CallShutdown
    /\ UNCHANGED <<s5, config, captureCTRLC, chunkConfig, runPc, sigPc, tunnelVars>>

\* Line 110: the goroutine reaches its receive from c.
HandlerWait ==
    /\ ~exit.exited
    /\ sigPc = "spawned"
    /\ sigPc' = "waiting"
    /\ UNCHANGED <<s5, listener, shutdownReturned, config, captureCTRLC,
                   chunkConfig, runPc, exit, tunnelVars>>

\* SIGINT or SIGTERM while the goroutine is not receiving yet: c has no
\* buffer (line 107) and signal.Notify does not block, the signal is dropped.
InterruptDropped ==
    /\ ~exit.exited
    /\ sigPc = "spawned"
    /\ UNCHANGED vars

\* Line 110: SIGINT or SIGTERM is delivered on c.
Interrupt ==
    /\ ~exit.exited
    /\ sigPc = "waiting"
    /\ sigPc' = "shutdown"
    /\ UNCHANGED <<s5, listener, shutdownReturned, config, captureCTRLC,
                   chunkConfig, runPc, exit, tunnelVars>>

\* Line 111: _ = ShutDown().
HandlerShutDown ==
    /\ ~exit.exited
    /\ sigPc = "shutdown"
    /\ CallShutdown
    /\ sigPc' = IF s5 = "set" THEN "exit" ELSE sigPc
    /\ UNCHANGED <<s5, config, captureCTRLC, chunkConfig, runPc, tunnelVars>>

\* Line 112: os.Exit(0).
HandlerExit ==
    /\ ~exit.exited
    /\ sigPc = "exit"
    /\ sigPc' = "exited"
    /\ exit' = [exited |-> TRUE, code |-> 0, by |-> "handler"]
    /\ UNCHANGED <<s5, listener, shutdownReturned, config, captureCTRLC,
                   chunkConfig, runPc, tunnelVars>>

\* ----------------------------------------------------- PersistentDial
\* The endpoint has an entry: lines 194-198.
Attach(q) ==
    /\ runPc = "serving"
    /\ Established
    /\ callsLeft > 0
    /\ LET idx == NextIndex(Tunnel.channelIndex)
       IN  /\ EstablishedTunnels' =
                [EstablishedTunnels EXCEPT ![Endpoint] =
                    [tunnelWriteChannel |-> Tunnel.tunnelWriteChannel,
                     bindWriteChannels |-> (idx :> q) @@ Tunnel.bindWriteChannels,
                     channelIndex |-> idx]]
           /\ ret' = [twc |-> Tunnel.tunnelWriteChannel, id |-> idx]
    /\ calls' = calls + 1
    /\ callsLeft' = callsLeft - 1
    /\ UNCHANGED <<serverVars, chansMade, supervisors, callers, now,
                   lastActivityStamp, supPc, conns, rdPc, rdPkt, ioVars>>

\* The endpoint has no entry: lines 200-212 and 317.
FirstAttach(q) ==
    /\ runPc = "serving"
    /\ ~Established
    /\ callsLeft > 0
    /\ chansMade' = chansMade + 1
    /\ EstablishedTunnels' =
         (Endpoint :> [tunnelWriteChannel |-> chansMade + 1,
                       bindWriteChannels |-> (1 :> q),
                       channelIndex |-> 1]) @@ EstablishedTunnels
    /\ lastActivityStamp' = now
    /\ supPc' = "start"
    /\ supervisors' = Append(supervisors, chansMade + 1)
    /\ ret' = [twc |-> chansMade + 1, id |-> 1]
    /\ calls' = calls + 1
    /\ callsLeft' = callsLeft - 1
    /\ UNCHANGED <<serverVars, callers, now, conns, rdPc, rdPkt, ioVars>>

PersistentDial(q) == Attach(q) \/ FirstAttach(q)

\* ------------------------------------- PersistentDial, calls that overlap
\* PersistentDial takes no lock: of calls that overlap, each read and each
\* write of the registry is a step of its own.  Caller p supplies bind queue p.
Callers == {1, 2}

\* A caller's position and locals: ok of line 194, the channelIndex it read,
\* its tunnelWriteChannel of line 200, what it returned.
Idle == [pc |-> "none", ok |-> FALSE, idx |-> 0, twc |-> 0,
         ret |-> [twc |-> 0, id |-> 0]]
NoCallers == [p \in Callers |-> Idle]

CallerSteps(p) ==
    /\ ~exit.exited
    /\ UNCHANGED <<serverVars, callsLeft, ret, now, lastActivityStamp, supPc, conns,
                   rdPc, rdPkt, ioVars>>

\* Line 194: the lookup of the endpoint.
Lookup(p) ==
    /\ callers[p].pc = "call"
    /\ callers' = [callers EXCEPT ![p].ok = Established,
                                  ![p].pc = IF Established THEN "load" ELSE "make"]
    /\ calls' = calls + 1
    /\ UNCHANGED <<EstablishedTunnels, chansMade, supervisors>>
    /\ CallerSteps(p)

\* Line 195, right-hand side: tunnel.channelIndex is read.
LoadIndex(p) ==
    /\ callers[p].pc = "load"
    /\ callers' = [callers EXCEPT ![p].idx = Tunnel.channelIndex, ![p].pc = "store"]
    /\ UNCHANGED <<EstablishedTunnels, chansMade, calls, supervisors>>
    /\ CallerSteps(p)

\* Line 195, the assignment: what was read, plus one, is stored.
StoreIndex(p) ==
    /\ callers[p].pc = "store"
    /\ EstablishedTunnels' =
         [EstablishedTunnels EXCEPT ![Endpoint].channelIndex = NextIndex(callers[p].idx)]
    /\ callers' = [callers EXCEPT ![p].pc = "index"]
    /\ UNCHANGED <<chansMade, calls, supervisors>>
    /\ CallerSteps(p)

\* Line 196, the index expression: tunnel.channelIndex is read again.
ReadIndex(p) ==
    /\ callers[p].pc = "index"
    /\ callers' = [callers EXCEPT ![p].idx = Tunnel.channelIndex, ![p].pc = "bind"]
    /\ UNCHANGED <<EstablishedTunnels, chansMade, calls, supervisors>>
    /\ CallerSteps(p)

\* Line 196, the assignment to the map.
Bind(p) ==
    /\ callers[p].pc = "bind"
    /\ EstablishedTunnels' =
         [EstablishedTunnels EXCEPT ![Endpoint].bindWriteChannels =
             (callers[p].idx :> p) @@ @]
    /\ callers' = [callers EXCEPT ![p].pc = "return"]
    /\ UNCHANGED <<chansMade, calls, supervisors>>
    /\ CallerSteps(p)

\* Line 197: tunnel.tunnelWriteChannel and tunnel.channelIndex are read and
\* returned.
ReturnIndex(p) ==
    /\ callers[p].pc = "return"
    /\ callers' = [callers EXCEPT ![p].pc = "done",
                                  ![p].ret = [twc |-> Tunnel.tunnelWriteChannel,
                                              id |-> Tunnel.channelIndex]]
    /\ UNCHANGED <<EstablishedTunnels, chansMade, calls, supervisors>>
    /\ CallerSteps(p)

\* Line 200: make(chan UDPPacket).
MakeChannel(p) ==
    /\ callers[p].pc = "make"
    /\ chansMade' = chansMade + 1
    /\ callers' = [callers EXCEPT ![p].twc = chansMade + 1, ![p].pc = "entry"]
    /\ UNCHANGED <<EstablishedTunnels, calls, supervisors>>
    /\ CallerSteps(p)

\* Lines 202-206: the entry of the endpoint is set to a new EstablishedTunnel.
WriteEntry(p) ==
    /\ callers[p].pc = "entry"
    /\ EstablishedTunnels' =
         (Endpoint :> [tunnelWriteChannel |-> callers[p].twc,
                       bindWriteChannels |-> << >>,
                       channelIndex |-> 1]) @@ EstablishedTunnels
    /\ callers' = [callers EXCEPT ![p].pc = "bind1"]
    /\ UNCHANGED <<chansMade, calls, supervisors>>
    /\ CallerSteps(p)

\* Line 208: the entry is looked up again and the queue bound to id 1 in it.
BindFirst(p) ==
    /\ callers[p].pc = "bind1"
    /\ EstablishedTunnels' =
         [EstablishedTunnels EXCEPT ![Endpoint].bindWriteChannels = (1 :> p) @@ @]
    /\ callers' = [callers EXCEPT ![p].pc = "go"]
    /\ UNCHANGED <<chansMade, calls, supervisors>>
    /\ CallerSteps(p)

\* Lines 210-212: the supervisor goroutine is started; its closure holds the
\* caller's tunnelWriteChannel.
StartSupervisor(p) ==
    /\ callers[p].pc = "go"
    /\ supervisors' = Append(supervisors, callers[p].twc)
    /\ callers' = [callers EXCEPT ![p].pc = "return1"]
    /\ UNCHANGED <<EstablishedTunnels, chansMade, calls>>
    /\ CallerSteps(p)

\* Line 317: return tunnelWriteChannel, 1, nil.
ReturnFirst(p) ==
    /\ callers[p].pc = "return1"
    /\ callers' = [callers EXCEPT ![p].pc = "done",
                                  ![p].ret = [twc |-> callers[p].twc, id |-> 1]]
    /\ UNCHANGED <<EstablishedTunnels, chansMade, calls, supervisors>>
    /\ CallerSteps(p)

\* The accesses of w.EstablishedTunnels and of a tunnel's bindWriteChannels
\* that a caller at each position is about to make.
ReadsRegistry == {"call", "bind1"}
WritesRegistry == {"entry"}
WritesBindings == {"bind", "bind1"}

\* Two callers about to access one map, one of them writing: the accesses
\* may overlap, and the Go runtime may then end the process with "fatal
\* error: concurrent map writes" (or "concurrent map read and map write").
MapThrow ==
    /\ ~exit.exited
    /\ \E p, r \in Callers :
          /\ p # r
          /\ \/ /\ callers[p].pc \in WritesRegistry
                /\ callers[r].pc \in ReadsRegistry \cup WritesRegistry
             \/ /\ callers[p].pc \in WritesBindings
                /\ callers[r].pc \in WritesBindings
    /\ exit' = [exited |-> TRUE, code |-> 2, by |-> "concurrent map access"]
    /\ UNCHANGED <<s5, listener, shutdownReturned, config, captureCTRLC,
                   chunkConfig, runPc, sigPc, tunnelVars>>

\* --------------------------------------------------------- supervisor
\* Faulty SupIdleStop: the supervisor returns without the deferred delete.
SupIdleStop_KeepsEntry ==
    /\ supPc = "start"
    /\ now - lastActivityStamp > LinkIdleTimeout
    /\ supPc' = "stopped"
    /\ UNCHANGED <<serverVars, registryVars, now, lastActivityStamp, conns, rdPc,
                   rdPkt, ioVars>>

\* Line 214 true: return, and the deferred delete of line 213.
SupIdleStop ==
    /\ supPc = "start"
    /\ now - lastActivityStamp > LinkIdleTimeout
    /\ EstablishedTunnels' =
         [e \in DOMAIN EstablishedTunnels \ {Endpoint} |-> EstablishedTunnels[e]]
    /\ supPc' = "stopped"
    /\ UNCHANGED <<serverVars, chansMade, calls, callsLeft, ret, supervisors,
                   callers, now, lastActivityStamp, conns, rdPc, rdPkt, ioVars>>

\* Line 214 false: enter the for loop of line 217.
SupEnterLoop ==
    /\ supPc = "start"
    /\ ~(now - lastActivityStamp > LinkIdleTimeout)
    /\ supPc' = "dial"
    /\ UNCHANGED <<serverVars, registryVars, now, lastActivityStamp, conns, rdPc,
                   rdPkt, ioVars>>

\* Lines 218-231 and 263: w.Dial succeeds, the writer is started, the reader entered.
DialOk ==
    /\ supPc = "dial"
    /\ Cur < MaxDials
    /\ conns' = Append(conns, NewConn)
    /\ supPc' = "serve"
    /\ rdPc' = "deadline"
    /\ UNCHANGED <<serverVars, registryVars, now, lastActivityStamp, rdPkt, ioVars>>

\* Lines 226-229: w.Dial fails, continue.
DialErr ==
    /\ supPc = "dial"
    /\ UNCHANGED vars

\* ------------------------------------------------------------- writer
\* Faulty WriterReturn: the writer's deferred function does not close the
\* connection.
WriterReturn_NoClose(c) ==
    [conns EXCEPT ![c].wPc = "terminated", ![c].rt = NoPacket, ![c].rtSeq = 0,
                  ![c].doneR = TRUE]

\* The deferred function of lines 232-235: close(doneR), conn.Close().
WriterReturn(c) ==
    [conns EXCEPT ![c].wPc = "terminated", ![c].rt = NoPacket, ![c].rtSeq = 0,
                  ![c].doneR = TRUE, ![c].closeCalls = @ + 1]

\* Lines 241-242: case <-done.
WriterDone(c) ==
    /\ c \in 1..Cur
    /\ conns[c].wPc = "select"
    /\ conns[c].done
    /\ conns' = WriterReturn(c)
    /\ UNCHANGED <<serverVars, registryVars, now, lastActivityStamp, supPc, rdPc,
                   rdPkt, ioVars>>

\* Line 243: case rt := <-tunnelWriteChannel, a rendezvous with a sender that
\* holds the channel and a channel id PersistentDial returned.
WriterRecv(c, ch, data) ==
    /\ c \in 1..Cur
    /\ conns[c].wPc = "select"
    /\ Established
    /\ ch \in DOMAIN Tunnel.bindWriteChannels
    /\ Len(sent) < MaxSends
    /\ LET rt == [Channel |-> ch, Data |-> data]
       IN  /\ conns' = [conns EXCEPT ![c].wPc = "write", ![c].rt = rt,
                                     ![c].rtSeq = Len(sent) + 1]
           /\ sent' = Append(sent, [pkt |-> rt, conn |-> c])
    /\ UNCHANGED <<serverVars, registryVars, now, lastActivityStamp, supPc, rdPc,
                   rdPkt, wire, inboundCount, delivered>>

\* Faulty WriterAfterError: the writer goes on with its loop.
WriterAfterError_Continue(c) ==
    [conns EXCEPT ![c].wPc = "select", ![c].rt = NoPacket, ![c].rtSeq = 0]

\* What the writer does after a failed SetWriteDeadline or Write: lines 245-247
\* and 253-256, return.
WriterAfterError(c) == WriterReturn(c)

\* Lines 244-257 without error: one message written, the stamp renewed.
WriterWriteOk(c) ==
    /\ c \in 1..Cur
    /\ conns[c].wPc = "write"
    /\ Usable(c)
    /\ wire' = Append(wire, [conn |-> c, seq |-> conns[c].rtSeq,
                             msg |-> Frame(conns[c].rt)])
    /\ lastActivityStamp' = now
    /\ conns' = [conns EXCEPT ![c].wPc = "select", ![c].rt = NoPacket,
                              ![c].rtSeq = 0]
    /\ UNCHANGED <<serverVars, registryVars, now, supPc, rdPc, rdPkt, sent,
                   inboundCount, delivered>>

\* Lines 244-256 with an error of SetWriteDeadline or of Write (a closed or
\* dropped connection, or the write deadline passing).
WriterWriteErr(c) ==
    /\ c \in 1..Cur
    /\ conns[c].wPc = "write"
    /\ conns' = WriterAfterError(c)
    /\ UNCHANGED <<serverVars, registryVars, now, lastActivityStamp, supPc, rdPc,
                   rdPkt, ioVars>>

\* ------------------------------------------------------------- reader
\* The reader's locals: rawPacket[:n], the packet made of it, the queue found.
NoDelivery == [raw |-> << >>, queue |-> 0, pkt |-> NoPacket]

\* Faulty ReaderReturn: the reader's deferred function does not close the
\* connection.
ReaderReturn_NoClose ==
    /\ conns' = [conns EXCEPT ![Cur].done = TRUE, ![Cur].readerDone = TRUE,
                              ![Cur].deadline = 0]
    /\ rdPc' = "none"
    /\ rdPkt' = NoDelivery
    /\ supPc' = "dial"

\* The deferred function of lines 264-267: close(done), conn.Close(); the inline
\* function returns and the supervisor is back at the top of its loop (line 217).
ReaderReturn ==
    /\ conns' = [conns EXCEPT ![Cur].done = TRUE, ![Cur].closeCalls = @ + 1,
                              ![Cur].readerDone = TRUE, ![Cur].deadline = 0]
    /\ rdPc' = "none"
    /\ rdPkt' = NoDelivery
    /\ supPc' = "dial"

\* Line 269 without error: the read deadline is set, once per connection.
ReaderSetDeadlineOk ==
    /\ supPc = "serve"
    /\ rdPc = "deadline"
    /\ ~Closed(Cur)
    /\ conns' = [conns EXCEPT ![Cur].deadline = now + ReadTimeout]
    /\ rdPc' = "select"
    /\ UNCHANGED <<serverVars, registryVars, now, lastActivityStamp, supPc, rdPkt,
                   ioVars>>

\* Lines 269-272 with an error (the writer has closed the connection already).
ReaderSetDeadlineErr ==
    /\ supPc = "serve"
    /\ rdPc = "deadline"
    /\ Closed(Cur)
    /\ ReaderReturn
    /\ UNCHANGED <<serverVars, registryVars, now, lastActivityStamp, ioVars>>

\* Lines 276-277: case <-doneR.
ReaderSelectDoneR ==
    /\ supPc = "serve"
    /\ rdPc = "select"
    /\ conns[Cur].doneR
    /\ ReaderReturn
    /\ UNCHANGED <<serverVars, registryVars, now, lastActivityStamp, ioVars>>

\* Line 279: default, the reader calls conn.Read.
ReaderSelectDefault ==
    /\ supPc = "serve"
    /\ rdPc = "select"
    /\ ~conns[Cur].doneR
    /\ rdPc' = "read"
    /\ rdPkt' = NoDelivery
    /\ UNCHANGED <<serverVars, registryVars, now, lastActivityStamp, supPc, conns,
                   ioVars>>

\* Faulty ReaderReadMessage: the result of the bind queue lookup is not tested,
\* the reader goes on to send also when no queue is registered for the id.
ReaderReadMessage_NoLookupTest(raw) ==
    /\ supPc = "serve"
    /\ rdPc = "read"
    /\ Usable(Cur)
    /\ now <= conns[Cur].deadline
    /\ inboundCount < MaxInbound
    /\ inboundCount' = inboundCount + 1
    /\ IF Len(raw) < 2
         THEN /\ rdPc' = "select"
              /\ rdPkt' = [raw |-> raw, queue |-> 0, pkt |-> NoPacket]
         ELSE LET pkt == Unpack(raw)
                  chans == Tunnel.bindWriteChannels
              IN  /\ rdPc' = "send"
                  /\ rdPkt' = [raw |-> raw,
                               queue |-> IF pkt.Channel \in DOMAIN chans
                                           THEN chans[pkt.Channel] ELSE 0,
                               pkt |-> pkt]
    /\ UNCHANGED <<serverVars, registryVars, now, lastActivityStamp, supPc, conns,
                   sent, wire, delivered>>

\* Lines 284-310 for a message read without error: n < 2 is skipped (285-287),
\* otherwise the packet is unpacked and its bind queue looked up (300-307).
ReaderReadMessage(raw) ==
    /\ supPc = "serve"
    /\ rdPc = "read"
    /\ Usable(Cur)
    /\ now <= conns[Cur].deadline
    /\ inboundCount < MaxInbound
    /\ inboundCount' = inboundCount + 1
    /\ IF Len(raw) < 2
         THEN /\ rdPc' = "select"
              /\ rdPkt' = [raw |-> raw, queue |-> 0, pkt |-> NoPacket]
         ELSE LET pkt == Unpack(raw)
                  chans == Tunnel.bindWriteChannels
              IN  IF pkt.Channel \in DOMAIN chans
                    THEN /\ rdPc' = "send"
                         /\ rdPkt' = [raw |-> raw, queue |-> chans[pkt.Channel],
                                      pkt |-> pkt]
                    ELSE /\ rdPc' = "select"
                         /\ rdPkt' = [raw |-> raw, queue |-> 0, pkt |-> pkt]
    /\ UNCHANGED <<serverVars, registryVars, now, lastActivityStamp, supPc, conns,
                   sent, wire, delivered>>

\* The errors conn.Read can return in the connection's present condition.
ReadErrors ==
    IF Closed(Cur) THEN ErrorKinds
    ELSE IF conns[Cur].peer = "dropped" THEN {"close"}
    ELSE IF now > conns[Cur].deadline THEN {"i/o"}
    ELSE {"other"}

\* Lines 289-297: conn.Read returns an error.
ReaderReadErr(kind) ==
    /\ supPc = "serve"
    /\ rdPc = "read"
    /\ kind \in ReadErrors
    /\ IF ReadErrTerminates(kind)
         THEN ReaderReturn
         ELSE /\ rdPc' = "select"
              /\ UNCHANGED <<supPc, conns, rdPkt>>
    /\ UNCHANGED <<serverVars, registryVars, now, lastActivityStamp, ioVars>>

\* Lines 308-309: udpBindWriteChan <- pkt completes (the consumer of the bind
\* queue receives), the stamp is renewed.
ReaderSend ==
    /\ supPc = "serve"
    /\ rdPc = "send"
    /\ delivered' = Append(delivered, [queue |-> rdPkt.queue, pkt |-> rdPkt.pkt,
                                       conn |-> Cur])
    /\ lastActivityStamp' = now
    /\ rdPc' = "select"
    /\ UNCHANGED <<serverVars, registryVars, now, supPc, conns, rdPkt, sent, wire,
                   inboundCount>>

\* -------------------------------------------------------- environment
\* The peer or the network drops the WebSocket of an open connection.
PeerDrop(c) ==
    /\ c \in 1..Cur
    /\ Usable(c)
    /\ conns' = [conns EXCEPT ![c].peer = "dropped"]
    /\ UNCHANGED <<serverVars, registryVars, now, lastActivityStamp, supPc, rdPc,
                   rdPkt, ioVars>>

\* A second passes.
Tick ==
    /\ now < MaxTime
    /\ now' = now + 1
    /\ UNCHANGED <<serverVars, registryVars, lastActivityStamp, supPc, conns, rdPc,
                   rdPkt, ioVars>>

\* ------------------------------------------------------ specification
Init ==
    /\ s5 = "nil"
    /\ listener = "none"
    /\ shutdownReturned = FALSE
    /\ config = DefaultConfig
    /\ captureCTRLC = FALSE
    /\ chunkConfig = NoChunkConfig
    /\ runPc = "none"
    /\ sigPc = "none"
    /\ exit = Running
    /\ EstablishedTunnels = << >>
    /\ chansMade = 0
    /\ calls = 0
    /\ callsLeft = MaxAttach
    /\ ret = [twc |-> 0, id |-> 0]
    /\ supervisors = << >>
    /\ callers = NoCallers
    /\ now = 0
    /\ lastActivityStamp = 0
    /\ supPc = "none"
    /\ conns = << >>
    /\ rdPc = "none"
    /\ rdPkt = NoDelivery
    /\ sent = << >>
    /\ wire = << >>
    /\ inboundCount = 0
    /\ delivered = << >>

\* The steps of PersistentDial's callers, of its goroutines and of the network.
TunnelNext ==
    \/ \E q \in BindQueues : Attach(q)
    \/ \E q \in BindQueues : FirstAttach(q)
    \/ SupIdleStop
    \/ SupEnterLoop
    \/ DialOk
    \/ DialErr
    \/ \E c \in 1..MaxDials : WriterDone(c)
    \/ \E c \in 1..MaxDials, ch \in 0..MaxAttach, data \in Payloads :
            WriterRecv(c, ch, data)
    \/ \E c \in 1..MaxDials : WriterWriteOk(c)
    \/ \E c \in 1..MaxDials : WriterWriteErr(c)
    \/ ReaderSetDeadlineOk
    \/ ReaderSetDeadlineErr
    \/ ReaderSelectDoneR
    \/ ReaderSelectDefault
    \/ \E raw \in InboundMessages : ReaderReadMessage(raw)
    \/ \E kind \in ErrorKinds : ReaderReadErr(kind)
    \/ ReaderSend
    \/ \E c \in 1..MaxDials : PeerDrop(c)
    \/ Tick

Next ==
    \/ RunServer
    \/ ShutDown
    \/ TunnelNext

Spec == Init /\ [][Next]_vars

\* ----------------------------------------------------------- fairness
\* conn.Read returns an error by itself once the connection is closed or
\* dropped, or its read deadline has passed.
ReaderReadFails ==
    /\ rdPc = "read"
    /\ (Closed(Cur) \/ conns[Cur].peer = "dropped" \/ now > conns[Cur].deadline)
    /\ \E kind \in ErrorKinds : ReaderReadErr(kind)

\* The Go scheduler runs every goroutine that can take a step, and a call on a
\* connection returns by its deadline.  Nothing is assumed of the environment:
\* of dials succeeding, of senders sending, of bind queue consumers receiving.
Fairness ==
    /\ WF_vars(SupIdleStop)
    /\ WF_vars(SupEnterLoop)
    /\ \A c \in 1..MaxDials : WF_vars(WriterDone(c))
    /\ \A c \in 1..MaxDials : WF_vars(WriterWriteOk(c) \/ WriterWriteErr(c))
    /\ WF_vars(ReaderSetDeadlineOk)
    /\ WF_vars(ReaderSetDeadlineErr)
    /\ WF_vars(ReaderSelectDoneR)
    /\ WF_vars(ReaderSelectDefault)
    /\ WF_vars(ReaderReadFails)

\* The tunnel of a server that is running: the state after RunServer.
InitServing ==
    /\ s5 = "set"
    /\ listener = "serving"
    /\ shutdownReturned = FALSE
    /\ config = DefaultConfig
    /\ captureCTRLC = FALSE
    /\ chunkConfig = ChunkConfigOf(DefaultConfig)
    /\ runPc = "serving"
    /\ sigPc = "none"
    /\ exit = Running
    /\ EstablishedTunnels = << >>
    /\ chansMade = 0
    /\ calls = 0
    /\ callsLeft = MaxAttach
    /\ ret = [twc |-> 0, id |-> 0]
    /\ supervisors = << >>
    /\ callers = NoCallers
    /\ now = 0
    /\ lastActivityStamp = 0
    /\ supPc = "none"
    /\ conns = << >>
    /\ rdPc = "none"
    /\ rdPkt = NoDelivery
    /\ sent = << >>
    /\ wire = << >>
    /\ inboundCount = 0
    /\ delivered = << >>

FairSpec == InitServing /\ [][TunnelNext]_vars /\ Fairness

\* A tunnel that has handed out k channel ids, k within WrapWindow of the
\* largest uint16: the state after one creating call and k - 1 further calls
\* of PersistentDial, the i-th of them with queue i, the supervisor in its loop.
InitWrap ==
    /\ s5 = "set"
    /\ listener = "serving"
    /\ shutdownReturned = FALSE
    /\ config = DefaultConfig
    /\ captureCTRLC = FALSE
    /\ chunkConfig = ChunkConfigOf(DefaultConfig)
    /\ runPc = "serving"
    /\ sigPc = "none"
    /\ exit = Running
    /\ \E k \in (U16 - WrapWindow)..(U16 - 1) :
          /\ EstablishedTunnels =
                (Endpoint :> [tunnelWriteChannel |-> 1,
                              bindWriteChannels |-> [i \in 1..k |-> i],
                              channelIndex |-> k])
          /\ ret = [twc |-> 1, id |-> k]
          /\ calls = k
    /\ callsLeft = MaxAttach
    /\ chansMade = 1
    /\ supervisors = <<1>>
    /\ callers = NoCallers
    /\ now = 0
    /\ lastActivityStamp = 0
    /\ supPc = "dial"
    /\ conns = << >>
    /\ rdPc = "none"
    /\ rdPkt = NoDelivery
    /\ sent = << >>
    /\ wire = << >>
    /\ inboundCount = 0
    /\ delivered = << >>

WrapNext == \E q \in BindQueues : Attach(q)

SpecWrap == InitWrap /\ [][WrapNext]_vars

\* Package core alone: RunServer called once with any of the configurations,
\* with or without captureCTRLC, ShutDown called by the application at any
\* moment, an interrupt delivered at any moment.
InitServer ==
    /\ s5 = "nil"
    /\ listener = "none"
    /\ shutdownReturned = FALSE
    /\ config \in Configs
    /\ captureCTRLC \in BOOLEAN
    /\ chunkConfig = NoChunkConfig
    /\ runPc = "none"
    /\ sigPc = "none"
    /\ exit = Running
    /\ EstablishedTunnels = << >>
    /\ chansMade = 0
    /\ calls = 0
    /\ callsLeft = 0
    /\ ret = [twc |-> 0, id |-> 0]
    /\ supervisors = << >>
    /\ callers = NoCallers
    /\ now = 0
    /\ lastActivityStamp = 0
    /\ supPc = "none"
    /\ conns = << >>
    /\ rdPc = "none"
    /\ rdPkt = NoDelivery
    /\ sent = << >>
    /\ wire = << >>
    /\ inboundCount = 0
    /\ delivered = << >>

ServerNext ==
    \/ RunServer
    \/ ShutDown
    \/ HandlerWait
    \/ InterruptDropped
    \/ Interrupt
    \/ HandlerShutDown
    \/ HandlerExit

SpecServer == InitServer /\ [][ServerNext]_vars

\* Two goroutines call PersistentDial for the endpoint at once, on a server
\* that is serving: the endpoint has no entry yet, or it has the entry and
\* the first k ids that k earlier calls, made one after the other, left.
InitRace ==
    /\ s5 = "set"
    /\ listener = "serving"
    /\ shutdownReturned = FALSE
    /\ config = DefaultConfig
    /\ captureCTRLC = FALSE
    /\ chunkConfig = ChunkConfigOf(DefaultConfig)
    /\ runPc = "serving"
    /\ sigPc = "none"
    /\ exit = Running
    /\ \E k \in 0..MaxAttach :
          /\ calls = k
          /\ IF k = 0
               THEN /\ EstablishedTunnels = << >>
                    /\ chansMade = 0
                    /\ supervisors = << >>
                    /\ supPc = "none"
               ELSE /\ EstablishedTunnels =
                          (Endpoint :> [tunnelWriteChannel |-> 1,
                                        bindWriteChannels |-> [i \in 1..k |-> i + 2],
                                        channelIndex |-> k])
                    /\ chansMade = 1
                    /\ supervisors = <<1>>
                    /\ supPc = "dial"
    /\ callsLeft = 0
    /\ ret = [twc |-> 0, id |-> 0]
    /\ callers = [p \in Callers |-> [Idle EXCEPT !.pc = "call"]]
    /\ now = 0
    /\ lastActivityStamp = 0
    /\ conns = << >>
    /\ rdPc = "none"
    /\ rdPkt = NoDelivery
    /\ sent = << >>
    /\ wire = << >>
    /\ inboundCount = 0
    /\ delivered = << >>

RaceNext ==
    \/ \E p \in Callers : Lookup(p)
    \/ \E p \in Callers : LoadIndex(p)
    \/ \E p \in Callers : StoreIndex(p)
    \/ \E p \in Callers : ReadIndex(p)
    \/ \E p \in Callers : Bind(p)
    \/ \E p \in Callers : ReturnIndex(p)
    \/ \E p \in Callers : MakeChannel(p)
    \/ \E p \in Callers : WriteEntry(p)
    \/ \E p \in Callers : BindFirst(p)
    \/ \E p \in Callers : StartSupervisor(p)
    \/ \E p \in Callers : ReturnFirst(p)
    \/ MapThrow

SpecRace == InitRace /\ [][RaceNext]_vars

\* ------------------------------------------------------------- claims
\* C1: while the endpoint's entry exists, PersistentDial returns ids that start
\* at 1, are never 0, and are never an id it has returned before (every id
\* returned is registered, and no registration is ever removed).
C1_ChannelIdsNeverWrap ==
    [][/\ (~Established /\ Established') => ret'.id = 1
       /\ (Established /\ Established' /\ calls' # calls) =>
              /\ ret'.id # 0
              /\ ret'.id \notin DOMAIN Tunnel.bindWriteChannels]_vars

\* A connection has ended, the supervisor is back at the top of its loop, and
\* there has been no traffic for longer than LinkIdleTimeout.
IdleAfterDisconnect ==
    /\ supPc = "dial"
    /\ Cur >= 1
    /\ now - lastActivityStamp > LinkIdleTimeout

\* C2: with no traffic for longer than LinkIdleTimeout the supervisor
\* eventually stops and the endpoint's entry is removed, also when the idle
\* period begins after the first connection: the idle condition is evaluated
\* after every disconnect.
C2_IdleRemovesEntry == [](IdleAfterDisconnect => <>(~Established))

\* Connection k is the serving one and its WebSocket has been dropped; the
\* supervisor is at w.Dial again after connection k, or has dialed since.
Dropped(k) == Cur = k /\ supPc = "serve" /\ conns[k].peer = "dropped"
Redialing(k) == (Cur = k /\ supPc = "dial") \/ Cur > k

Written == {wire[i].seq : i \in 1..Len(wire)}
Lost(c) ==
    {n \in 1..Len(sent) : sent[n].conn = c /\ n \notin Written /\ conns[c].rtSeq # n}

\* C4: every packet taken from tunnelWriteChannel is written at most once, by
\* the writer that took it, and each connection's writer fails to write at
\* most one of the packets it took, also while the writers of several
\* connections receive from the channel.
C4_NoDuplicateOneLostPerDrop ==
    /\ \A i, j \in 1..Len(wire) : i # j => wire[i].seq # wire[j].seq
    /\ \A i \in 1..Len(wire) : sent[wire[i].seq].conn = wire[i].conn
    /\ \A c \in 1..Cur : Cardinality(Lost(c)) <= 1

\* After the redial the new writer took a packet and wrote it, and then the
\* writer of the dropped connection took one and lost it.
C4_Witness ==
    \E m, n \in 1..Len(sent) :
        /\ m < n
        /\ sent[m].conn = 2
        /\ m \in Written
        /\ sent[n].conn = 1
        /\ n \in Lost(1)
        /\ conns[1].peer = "dropped"

\* C5 as stated: Close is invoked on a connection once, not twice.
C5_CloseInvokedOnce ==
    \A c \in 1..Cur :
        /\ conns[c].closeCalls <= 1
        /\ (conns[c].readerDone \/ conns[c].wPc = "terminated") =>
              conns[c].closeCalls = 1

\* How many of the two tasks of connection c have terminated.
Terminations(c) ==
    (IF conns[c].readerDone THEN 1 ELSE 0) +
    (IF conns[c].wPc = "terminated" THEN 1 ELSE 0)

\* C5 amended: each of the two tasks of a connection invokes Close once, when
\* it terminates: Close has been invoked once when one of them has terminated
\* and twice when both have, never more.
C5_CloseInvokedByEachTask ==
    \A c \in 1..Cur : conns[c].closeCalls = Terminations(c)

C5_Witness ==
    \E c \in 1..Cur :
        /\ conns[c].readerDone
        /\ conns[c].wPc = "terminated"
        /\ conns[c].closeCalls = 2

WriterTerminated(c) == c <= Cur /\ conns[c].wPc = "terminated"
ReaderTerminated(c) == c <= Cur /\ conns[c].readerDone

\* C6: on each connection the writer's termination leads to the reader's and
\* the reader's to the writer's, whatever the reader is doing, also while it
\* is enqueueing a packet on a bind queue whose consumer is not receiving.
C6_EitherTerminationStopsTheOther ==
    \A c \in 1..MaxDials :
        /\ WriterTerminated(c) ~> ReaderTerminated(c)
        /\ ReaderTerminated(c) ~> WriterTerminated(c)

\* C7: each message on the wire is ShortClientID, then the two bytes of the
\* channel id of the packet it was made of, high byte first, then the packet's
\* data; and a writer that failed to write a packet has terminated, with no
\* message of a later packet on its connection.
C7_WriterFraming ==
    /\ \A i \in 1..Len(wire) :
          LET m == wire[i].msg
              p == sent[wire[i].seq].pkt
              L == Len(ShortClientID)
          IN  /\ Len(m) = L + 2 + Len(p.Data)
              /\ \A k \in 1..L : m[k] = ShortClientID[k]
              /\ m[L + 1] \in 0..255 /\ m[L + 2] \in 0..255
              /\ m[L + 1] * 256 + m[L + 2] = p.Channel
              /\ \A k \in 1..Len(p.Data) : m[L + 2 + k] = p.Data[k]
    /\ \A c \in 1..Cur : \A n \in Lost(c) :
          /\ conns[c].wPc = "terminated"
          /\ \A i \in 1..Len(wire) : wire[i].conn = c => wire[i].seq < n

\* A connection carried a packet with data and then lost the next one.
C7_Witness ==
    \E c \in 1..Cur : \E i \in 1..Len(wire) : \E n \in Lost(c) :
        /\ wire[i].conn = c
        /\ sent[wire[i].seq].pkt.Data # << >>
        /\ wire[i].seq < n

\* C8: a message of two bytes or more, read without error, whose first two
\* bytes (high byte first) are an id registered under the endpoint, makes
\* the reader enqueue the packet of that id and of the bytes after the first
\* two, and what is enqueued is that packet, once, on the queue registered for
\* the id.
C8_ReaderRouting ==
    [][/\ inboundCount' # inboundCount =>
             LET raw == rdPkt'.raw
                 n == Len(raw)
             IN  (n >= 2 /\ raw[1] * 256 + raw[2] \in DOMAIN Tunnel.bindWriteChannels) =>
                     /\ rdPc' = "send"
                     /\ rdPkt'.queue = Tunnel.bindWriteChannels[raw[1] * 256 + raw[2]]
                     /\ rdPkt'.pkt.Channel = raw[1] * 256 + raw[2]
                     /\ Len(rdPkt'.pkt.Data) = n - 2
                     /\ \A k \in 1..(n - 2) : rdPkt'.pkt.Data[k] = raw[k + 2]
       /\ delivered' # delivered =>
             /\ rdPc = "send"
             /\ delivered' = Append(delivered, [queue |-> rdPkt.queue,
                                                pkt |-> rdPkt.pkt, conn |-> Cur])]_vars

\* With two ids registered, a message for id 2 was enqueued on the queue of the
\* second caller.
C8_Witness ==
    \E i \in 1..Len(delivered) :
        /\ delivered[i].pkt.Channel = 2
        /\ delivered[i].pkt.Data = <<9, 8>>
        /\ delivered[i].queue = 2

\* The channel id of the packet the i-th message on the wire was made of.
ChannelOf(i) == sent[wire[i].seq].pkt.Channel

\* C9: the packets of one channel id appear on the wire in the order in which
\* they were taken from tunnelWriteChannel, over all connections.
C9_FifoPerChannel ==
    \A i, j \in 1..Len(wire) :
        (i < j /\ ChannelOf(i) = ChannelOf(j)) => wire[i].seq < wire[j].seq

\* Two packets of one channel were written, one before a reconnect and one
\* after it.
C9_Witness ==
    /\ Len(wire) >= 2
    /\ wire[1].conn = 1
    /\ wire[2].conn = 2
    /\ ChannelOf(1) = ChannelOf(2)

\* C10: once ShutDown has returned the listener is closed, no supervisor,
\* reader or writer is running, and the registry holds no entry.
C10_ShutDownClosesTunnels ==
    shutdownReturned =>
        /\ listener = "closed"
        /\ ~Established
        /\ supPc \in {"none", "stopped"}
        /\ \A c \in 1..Cur : conns[c].readerDone /\ conns[c].wPc = "terminated"

\* The writers that have not terminated, and the connections whose reader has
\* not.
WritersAlive == {c \in 1..Cur : conns[c].wPc # "terminated"}
ReadersAlive == {c \in 1..Cur : ~conns[c].readerDone}

\* C15: the endpoint has at most one reader and at most one writer alive; the
\* supervisor starts the writer of a new connection only when the writer of
\* the previous one has terminated.
C15_OneReaderOneWriter ==
    /\ Cardinality(ReadersAlive) <= 1
    /\ Cardinality(WritersAlive) <= 1

\* The reader has just read a message that is shorter than two bytes or whose
\* id has no bind queue registered.
ReadsUnroutable ==
    /\ inboundCount' # inboundCount
    /\ LET raw == rdPkt'.raw
       IN  \/ Len(raw) < 2
           \/ raw[1] * 256 + raw[2] \notin DOMAIN Tunnel.bindWriteChannels

\* C16: a message shorter than two bytes, or of an id with no bind queue
\* registered, has no effect: nothing is enqueued or about to be, the registry
\* and the activity stamp are unchanged, the reader is back at the top of its
\* loop and the connection is as it was, open.
C16_UnroutableDropped ==
    [][ReadsUnroutable =>
          /\ delivered' = delivered
          /\ rdPc' = "select"
          /\ supPc' = "serve"
          /\ EstablishedTunnels' = EstablishedTunnels
          /\ lastActivityStamp' = lastActivityStamp
          /\ conns' = conns
          /\ Usable(Cur)]_vars

\* With ids 1 and 2 registered, a one-byte message or a message for id 3 or
\* 256 was read and the reader is at its select again.
C16_Witness ==
    /\ rdPc = "select"
    /\ rdPkt.raw \in {<<0>>, <<0, 3, 9>>, <<1, 0, 9>>}
    /\ Established
    /\ DOMAIN Tunnel.bindWriteChannels = {1, 2}
    /\ Usable(Cur)
    /\ delivered = << >>

\* The supervisor takes its first step, longer than LinkIdleTimeout after the
\* tunnel was created.
FirstStepIdle ==
    /\ supPc = "start"
    /\ now - lastActivityStamp > LinkIdleTimeout
    /\ supPc' # supPc

\* C17: a supervisor whose first step comes longer than LinkIdleTimeout after
\* the creation of the tunnel removes the entry and stops without having
\* dialed, while the creating call has returned the entry's tunnelWriteChannel
\* and an id that is registered.
C17_IdleBeforeFirstDial ==
    [][FirstStepIdle =>
          /\ Established
          /\ ret.twc = Tunnel.tunnelWriteChannel
          /\ ret.id \in DOMAIN Tunnel.bindWriteChannels
          /\ 1 \in DOMAIN Tunnel.bindWriteChannels
          /\ Cur = 0
          /\ ~Established'
          /\ supPc' = "stopped"
          /\ conns' = conns]_vars

\* The first call returned channel 1 and id 1, and the supervisor has stopped
\* with no connection ever dialed and the entry gone.
C17_Witness ==
    /\ supPc = "stopped"
    /\ ~Established
    /\ Cur = 0
    /\ calls = 1
    /\ ret = [twc |-> 1, id |-> 1]

\* C18: while the supervisor is at w.Dial and stays there (its dials fail), no
\* reader or writer is started, the entry and every registration stay, and no
\* packet is received from tunnelWriteChannel.
C18_DialErrorRetries ==
    [][(supPc = "dial" /\ supPc' = "dial") =>
          /\ Len(conns') = Len(conns)
          /\ rdPc' = "none"
          /\ Established'
          /\ Tunnel'.tunnelWriteChannel = Tunnel.tunnelWriteChannel
          /\ \A i \in DOMAIN Tunnel.bindWriteChannels :
                /\ i \in DOMAIN Tunnel'.bindWriteChannels
                /\ Tunnel'.bindWriteChannels[i] = Tunnel.bindWriteChannels[i]
          /\ sent' = sent]_vars

\* C19: the reader that has handled a message and calls conn.Read again does
\* so with the read deadline set to now + ReadTimeout.
C19_DeadlinesReArmed ==
    [][(rdPc = "select" /\ rdPc' = "read" /\ rdPkt # NoDelivery) =>
          conns'[Cur].deadline = now + ReadTimeout]_vars

\* C11: the handler started with captureCTRLC exits only after its call of
\* ShutDown has returned, and the process then ends with exit code 130.
C11_InterruptExit130 ==
    sigPc = "exited" =>
        /\ captureCTRLC
        /\ shutdownReturned
        /\ exit.exited
        /\ exit.code = 130

\* C12: every region the ChunkConfig has a range for carries the range
\* configured for that region, the delay the configured delay.
C12_ChunkConfigRanges ==
    runPc # "none" =>
        /\ chunkConfig.BeforeSniLength = config.ChunksLengthBeforeSni
        /\ chunkConfig.AfterSniLength = config.ChunksLengthAfterSni
        /\ chunkConfig.Delay = config.DelayBetweenChunks

\* C20: no call of ShutDown, by the application or by the interrupt handler,
\* finds s5 unset.
C20_ShutDownHandleSet == exit.by # "nil s5"

\* Both callers have returned, having found the entry / one of them having
\* found none.
BothReturned == \A p \in Callers : callers[p].pc = "done"
BothAttached == BothReturned /\ \A p \in Callers : callers[p].ok
SomeCreated == BothReturned /\ \E p \in Callers : ~callers[p].ok

\* C13: two overlapping calls on an endpoint that has its entry return
\* different ids, and the registry then maps the id each returned to that
\* caller's queue and the ids of earlier calls to what they were bound to.
C13_ConcurrentAttachDistinctIds ==
    BothAttached =>
        /\ \A p, r \in Callers : p # r => callers[p].ret.id # callers[r].ret.id
        /\ \A p \in Callers :
              /\ callers[p].ret.id \in DOMAIN Tunnel.bindWriteChannels
              /\ Tunnel.bindWriteChannels[callers[p].ret.id] = p
        /\ \A i \in 1..(calls - 2) :
              /\ i \in DOMAIN Tunnel.bindWriteChannels
              /\ Tunnel.bindWriteChannels[i] = i + 2

\* C14: overlapping calls on an endpoint that has no entry make one channel
\* and one supervisor, and every call returns the tunnelWriteChannel of the
\* entry, which is the one that supervisor's writers receive from.
C14_ConcurrentCreateOnce ==
    SomeCreated =>
        /\ chansMade = 1
        /\ Len(supervisors) = 1
        /\ \A p \in Callers :
              /\ callers[p].ret.twc = Tunnel.tunnelWriteChannel
              /\ callers[p].ret.twc = supervisors[1]

=============================================================================
